---- MODULE Spec2Model ----
(***************************************************************************)
(* A model of the mini-crm dashboard page (Home): the login gate, the      *)
(* tabbed customer / item / order views, the order composer and the        *)
(* totals shown on each order card.                                        *)
(*                                                                         *)
(* Text values the code inspects character by character (codes, raw        *)
(* quantity input, the formatted total) are sequences of one-character     *)
(* strings.  Money is counted in whole cents.                              *)
(***************************************************************************)
EXTENDS Integers, Sequences, FiniteSets, TLC

VARIABLES
    username, password,     \* login form fields
    token, authError,       \* authentication state
    page, isLoading,        \* UI state
    customers, items, orders,           \* data lists held by the page
    customerForm, itemForm, orderForm,  \* forms
    orderItems,             \* the line set of the order being composed
    requests,               \* the requests awaited, in issue order, each with the
                            \* values its handler captured when it was called
    server,                 \* the records held behind the API routes
    completed,              \* what the handlers that ran to their end had to merge
    cards,                  \* the totals the order cards showed at the last render
    limits                  \* how many requests may still be issued, and how many
                            \* may be awaited at one time

vars == << username, password, token, authError, page, isLoading,
           customers, items, orders, customerForm, itemForm, orderForm,
           orderItems, requests, server, completed, cards, limits >>

authVars == << username, password, token, authError >>
listVars == << customers, items, orders >>
formVars == << customerForm, itemForm, orderForm, orderItems >>
netVars  == << requests, server, completed, limits >>

-----------------------------------------------------------------------------
(* Bounds of the model *)

MaxRequests == 5        \* requests issued in one behaviour from construction
LoginInFlight == 1      \* requests awaited at one time from construction
MaxInFlight == 2        \* requests awaited at one time by a loaded dashboard
ComposerRequests == 1   \* orders submitted while composing
SubmitRequests == 1     \* items and orders submitted
NetRequests == 3        \* requests issued by a loaded dashboard
MaxLines    == 2        \* lines of an order returned by the order route
MaxNow      == 2        \* distinct values Date.now() can return

-----------------------------------------------------------------------------
(* Text helpers *)

DigitChars == <<"0", "1", "2", "3", "4", "5", "6", "7", "8", "9">>

IsDigit(c) == \E d \in 1..10 : DigitChars[d] = c

DigitVal(c) == (CHOOSE d \in 1..10 : DigitChars[d] = c) - 1

RECURSIVE Digits(_)
\* the decimal numeral of a natural number, as `${n}` interpolates it
Digits(n) ==
    IF n < 10 THEN << DigitChars[n + 1] >>
    ELSE Append(Digits(n \div 10), DigitChars[(n % 10) + 1])

IsSpace(c) == c = " "

RECURSIVE TrimStart(_)
TrimStart(s) ==
    IF s # << >> /\ IsSpace(Head(s)) THEN TrimStart(Tail(s)) ELSE s

RECURSIVE TrimEnd(_)
TrimEnd(s) ==
    IF s # << >> /\ IsSpace(s[Len(s)]) THEN TrimEnd(SubSeq(s, 1, Len(s) - 1)) ELSE s

\* String.prototype.trim
trim(s) == TrimEnd(TrimStart(s))

RECURSIVE DigitRun(_, _)
\* value of the longest run of digits at the front of s, continuing from acc
DigitRun(s, acc) ==
    IF s # << >> /\ IsDigit(Head(s))
    THEN DigitRun(Tail(s), acc * 10 + DigitVal(Head(s)))
    ELSE acc

\* parseInt(raw): leading white space is skipped, one sign is accepted, the
\* digits that follow are read and the rest is ignored; no digit gives NaN.
parseInt(raw) ==
    LET s    == TrimStart(raw)
        sgn  == IF s # << >> /\ Head(s) = "-" THEN -1 ELSE 1
        body == IF s # << >> /\ Head(s) \in {"+", "-"} THEN Tail(s) ELSE s
    IN  IF body = << >> \/ ~IsDigit(Head(body))
        THEN [nan |-> TRUE, val |-> 0]
        ELSE [nan |-> FALSE, val |-> sgn * DigitRun(body, 0)]

\* Number.prototype.toFixed(2) of an amount of whole cents
toFixed2(cents) ==
    LET a == IF cents < 0 THEN -cents ELSE cents
    IN  (IF cents < 0 THEN <<"-">> ELSE << >>)
        \o Digits(a \div 100) \o <<".">>
        \o << DigitChars[((a % 100) \div 10) + 1], DigitChars[(a % 10) + 1] >>

-----------------------------------------------------------------------------
(* The order composer *)

HasLine(lines, id) == \E k \in 1..Len(lines) : lines[k].itemMongoId = id

\* toggleLine without its look-up of an existing line
toggleLineAlwaysAppends(lines, item) ==
    Append(lines, [itemMongoId |-> item._id, quantity |-> 1, price |-> item.price])

\* toggleLine with the filter keeping the matching line instead of the others
toggleLineKeepsMatch(lines, item) ==
    IF HasLine(lines, item._id)
    THEN SelectSeq(lines, LAMBDA i : i.itemMongoId = item._id)
    ELSE Append(lines, [itemMongoId |-> item._id, quantity |-> 1, price |-> item.price])

\* toggleLine with the new line's price left at 0
toggleLineNoPrice(lines, item) ==
    IF HasLine(lines, item._id)
    THEN SelectSeq(lines, LAMBDA i : i.itemMongoId # item._id)
    ELSE Append(lines, [itemMongoId |-> item._id, quantity |-> 1, price |-> 0])

\* toggleItemInOrder: the line set it passes to setOrderItems
toggleLine(lines, item) ==
    IF HasLine(lines, item._id)
    THEN SelectSeq(lines, LAMBDA i : i.itemMongoId # item._id)
    ELSE Append(lines, [itemMongoId |-> item._id, quantity |-> 1, price |-> item.price])

\* parseInt(qty) || 1
quantityOf(qty) ==
    LET p == parseInt(qty)
    IN  IF p.nan \/ p.val = 0 THEN 1 ELSE p.val

\* setQuantity without its test of the line's item
setQuantityEveryLine(lines, id, qty) ==
    [k \in 1..Len(lines) |-> [lines[k] EXCEPT !.quantity = quantityOf(qty)]]

\* updateItemQty: the line set it passes to setOrderItems
setQuantity(lines, id, qty) ==
    [k \in 1..Len(lines) |->
        IF lines[k].itemMongoId = id
        THEN [lines[k] EXCEPT !.quantity = quantityOf(qty)]
        ELSE lines[k]]

\* generateCode without the trim: only the empty code is replaced
generateCodeNoTrim(prefix, supplied, now) ==
    IF supplied # << >> THEN supplied ELSE prefix \o Digits(now)

\* the code sent by createOrder / createItem
generateCode(prefix, supplied, now) ==
    IF supplied # << >> /\ trim(supplied) # << >> THEN supplied
    ELSE prefix \o Digits(now)

ORD == <<"O", "R", "D", "_">>
ITEM == <<"I", "T", "E", "M", "_">>

-----------------------------------------------------------------------------
(* The totals of an order card.  A line of a stored order may lack its     *)
(* quantity or its price field.                                            *)

\* lineQuantity defaulting a missing quantity only, not a zero one
lineQuantityKeepsZero(i) ==
    IF "quantity" \in DOMAIN i THEN i.quantity ELSE 1

\* i.quantity || 1
lineQuantity(i) ==
    IF "quantity" \in DOMAIN i /\ i.quantity # 0 THEN i.quantity ELSE 1

\* parseFloat(i.price || 0)
linePrice(i) ==
    IF "price" \in DOMAIN i /\ i.price # 0 THEN i.price ELSE 0

RECURSIVE reduceQty(_, _)
reduceQty(lines, sum) ==
    IF lines = << >> THEN sum
    ELSE reduceQty(Tail(lines), sum + lineQuantity(Head(lines)))

RECURSIVE reducePrice(_, _)
reducePrice(lines, sum) ==
    IF lines = << >> THEN sum
    ELSE reducePrice(Tail(lines), sum + lineQuantity(Head(lines)) * linePrice(Head(lines)))

\* totalQty and totalPrice of one order
computeTotals(lines) ==
    [ totalQuantity |-> reduceQty(lines, 0),
      totalPrice    |-> toFixed2(reducePrice(lines, 0)) ]

\* what one order card shows; o.items?.reduce(...) is undefined without a list
orderCard(o) ==
    IF "items" \in DOMAIN o
    THEN computeTotals(o.items)
    ELSE [ totalQuantity |-> 0, totalPrice |-> <<"undefined">> ]

-----------------------------------------------------------------------------
(* Values the user and the API routes can supply *)

Statuses == {"Pending", "In Progress", "Completed", "Cancelled"}
Pages == {"customers", "items", "orders"}
Usernames == {"admin"}
Passwords == {"secret"}
Tokens == {"jwt1"}
LoginErrors == {"", "Bad password"}     \* error.error of a refused login, '' when absent
Names == {"Ann"}
Emails == {"ann@x"}
CodeInputs == { << >>, <<" ">>, <<"A", "7">>, <<" ", "A">> }
Prices == {0, 550, 1000}                \* cents
RawQuantities ==
    { <<"a", "b", "c">>, << >>, <<"0">>, <<"2">>, <<"-", "3">>, <<"2", ".", "5">>,
      <<"1", "0">>, <<"3", "p", "x">> }
ComposerQuantities == { <<"a", "b", "c">>, <<"2">> }
Timestamps == 41..(40 + MaxNow)
FirstNow == CHOOSE t \in Timestamps : \A u \in Timestamps : t <= u

emptyCustomerForm == [name |-> "", email |-> "", phone |-> "", address |-> ""]
emptyItemForm == [name |-> "", price |-> 0, cost |-> 0, photo |-> "", itemId |-> << >>]
emptyOrderForm == [customerId |-> "", orderId |-> << >>, status |-> "Pending"]

noData == [none |-> TRUE]

-----------------------------------------------------------------------------
(* Requests.  A request is "sent" when fetch is called and "answered" once *)
(* the route has produced its response; it leaves the sequence when the    *)
(* handler that awaited it has run to its end.                             *)

request(kind, auth, body, captured) ==
    [kind |-> kind, auth |-> auth, body |-> body, captured |-> captured,
     phase |-> "sent", ok |-> FALSE, data |-> noData]

\* room for n more requests
Room(n) == n <= limits.requests /\ Len(requests) + n <= limits.inflight

spend(n) == [limits EXCEPT !.requests = @ - n]

CanIssue == Room(1)

\* the request fetchData issues for a page
fetchRequest(tok, pg) == request("fetch", tok, [page |-> pg], << >>)

\* effectRequests without the return on an empty token
effectRequestsNoGate(oldToken, oldPage, newToken, newPage) ==
    IF oldToken # newToken \/ oldPage # newPage
    THEN << fetchRequest(newToken, newPage) >>
    ELSE << >>

\* useEffect(..., [token, page]): runs after the first render and after a render
\* in which token or page changed; returns at once while the token is empty.
\* Before the first render there is no token and no page ("").
effectRequests(oldToken, oldPage, newToken, newPage) ==
    IF (oldToken # newToken \/ oldPage # newPage) /\ newToken # ""
    THEN << fetchRequest(newToken, newPage) >>
    ELSE << >>

Sent(k) == k \in 1..Len(requests) /\ requests[k].phase = "sent"
Answered(k) == k \in 1..Len(requests) /\ requests[k].phase = "answered"
Pending(k) == k \in 1..Len(requests)

finish(k) == SubSeq(requests, 1, k - 1) \o SubSeq(requests, k + 1, Len(requests))

\* what a handler that ran to its end had to merge into the page
merge(kind, id, status) == [kind |-> kind, _id |-> id, status |-> status]

-----------------------------------------------------------------------------
(* The login screen (rendered while the token is empty) *)

setUsername(u) ==
    /\ token = ""
    /\ username' = u
    /\ UNCHANGED << cards, password, token, authError, page, isLoading, listVars,
                    formVars, netVars >>

setPassword(p) ==
    /\ token = ""
    /\ password' = p
    /\ UNCHANGED << cards, username, token, authError, page, isLoading, listVars,
                    formVars, netVars >>

\* handleLogin, up to its await
handleLogin ==
    /\ token = ""
    /\ CanIssue
    /\ authError' = ""
    /\ requests' = Append(requests,
           request("login", "", [username |-> username, password |-> password], << >>))
    /\ limits' = spend(1)
    /\ UNCHANGED << cards, username, password, token, page, isLoading, listVars,
                    formVars, server, completed >>

\* handleLogin, from the response on; a new token starts fetchData
handleLoginResume(k) ==
    /\ Pending(k)
    /\ requests[k].kind = "login"
    /\ \/ /\ Answered(k) /\ ~requests[k].ok
          /\ authError' = (IF requests[k].data.error # "" THEN requests[k].data.error
                           ELSE "Invalid credentials")
          /\ requests' = finish(k)
          /\ UNCHANGED << username, password, token, isLoading, limits, completed >>
       \/ /\ Answered(k) /\ requests[k].ok
          /\ LET fx == effectRequests(token, page, requests[k].data.token, page)
             IN  /\ Len(fx) <= limits.requests
                 /\ requests' = finish(k) \o fx
                 /\ limits' = spend(Len(fx))
                 /\ isLoading' = (IF fx # << >> THEN TRUE ELSE isLoading)
          /\ token' = requests[k].data.token
          /\ username' = ""
          /\ password' = ""
          /\ completed' = completed \cup {merge("login", requests[k].data.token, "")}
          /\ UNCHANGED authError
       \/ /\ authError' = "Network error"        \* fetch or res.json() throws
          /\ requests' = finish(k)
          /\ UNCHANGED << username, password, token, isLoading, limits, completed >>
    /\ UNCHANGED << cards, page, listVars, formVars, server >>

-----------------------------------------------------------------------------
(* The dashboard (rendered once the token is set) *)

\* the tab buttons; setPage with the current page renders nothing anew
setPage(p) ==
    /\ token # ""
    /\ LET fx == effectRequests(token, page, token, p)
       IN  /\ Room(Len(fx))
           /\ requests' = requests \o fx
           /\ limits' = spend(Len(fx))
           /\ isLoading' = (IF fx # << >> THEN TRUE ELSE isLoading)
    /\ page' = p
    /\ UNCHANGED << cards, authVars, listVars, formVars, server, completed >>

\* fetchData, from the response on
fetchDataResume(k) ==
    /\ Pending(k)
    /\ requests[k].kind = "fetch"
    /\ \/ /\ Answered(k)
          /\ customers' = (IF requests[k].body.page = "customers"
                           THEN requests[k].data ELSE customers)
          /\ items' = (IF requests[k].body.page = "items"
                       THEN requests[k].data ELSE items)
          /\ orders' = (IF requests[k].body.page = "orders"
                        THEN requests[k].data ELSE orders)
       \/ UNCHANGED listVars                     \* fetch or res.json() throws
    /\ isLoading' = FALSE
    /\ requests' = finish(k)
    /\ UNCHANGED << cards, authVars, page, formVars, server, limits, completed >>

setCustomerForm(field, value) ==
    /\ token # "" /\ page = "customers"
    /\ customerForm' = [customerForm EXCEPT ![field] = value]
    /\ UNCHANGED << cards, authVars, page, isLoading, listVars, itemForm, orderForm,
                    orderItems, netVars >>

\* createCustomer, up to its await
createCustomer ==
    /\ token # "" /\ page = "customers"
    /\ IF customerForm.name = "" \/ customerForm.email = ""
       THEN UNCHANGED << requests, limits >>
       ELSE /\ CanIssue
            /\ requests' = Append(requests,
                   request("createCustomer", token, customerForm, customers))
            /\ limits' = spend(1)
    /\ UNCHANGED << cards, authVars, page, isLoading, listVars, formVars, server, completed >>

\* createCustomer, from the response on
createCustomerResume(k) ==
    /\ Answered(k)
    /\ requests[k].kind = "createCustomer"
    /\ customers' = << requests[k].data >> \o requests[k].captured
    /\ customerForm' = emptyCustomerForm
    /\ requests' = finish(k)
    /\ completed' = completed \cup {merge("customers", requests[k].data._id, "")}
    /\ UNCHANGED << cards, authVars, page, isLoading, items, orders, itemForm,
                    orderForm, orderItems, server, limits >>

setItemForm(field, value) ==
    /\ token # "" /\ page = "items"
    /\ itemForm' = [itemForm EXCEPT ![field] = value]
    /\ UNCHANGED << cards, authVars, page, isLoading, listVars, customerForm, orderForm,
                    orderItems, netVars >>

\* the body createItem posts
itemBody(form, now) == [form EXCEPT !.itemId = generateCode(ITEM, form.itemId, now)]

\* createItem, up to its await
createItem(now) ==
    /\ token # "" /\ page = "items"
    /\ CanIssue
    /\ requests' = Append(requests,
           request("createItem", token, itemBody(itemForm, now), items))
    /\ limits' = spend(1)
    /\ UNCHANGED << cards, authVars, page, isLoading, listVars, formVars, server, completed >>

\* createItem, from the response on
createItemResume(k) ==
    /\ Answered(k)
    /\ requests[k].kind = "createItem"
    /\ items' = << requests[k].data >> \o requests[k].captured
    /\ itemForm' = emptyItemForm
    /\ requests' = finish(k)
    /\ completed' = completed \cup {merge("items", requests[k].data._id, "")}
    /\ UNCHANGED << cards, authVars, page, isLoading, customers, orders, customerForm,
                    orderForm, orderItems, server, limits >>

setOrderForm(field, value) ==
    /\ token # "" /\ page = "orders"
    /\ orderForm' = [orderForm EXCEPT ![field] = value]
    /\ UNCHANGED << cards, authVars, page, isLoading, listVars, customerForm, itemForm,
                    orderItems, netVars >>

\* the checkbox of catalog item number n
toggleItemInOrder(n) ==
    /\ token # "" /\ page = "orders"
    /\ n \in 1..Len(items)
    /\ orderItems' = toggleLine(orderItems, items[n])
    /\ UNCHANGED << cards, authVars, page, isLoading, listVars, customerForm, itemForm,
                    orderForm, netVars >>

\* the quantity box of catalog item number n, shown while the item has a line
updateItemQty(n, qty) ==
    /\ token # "" /\ page = "orders"
    /\ n \in 1..Len(items)
    /\ HasLine(orderItems, items[n]._id)
    /\ orderItems' = setQuantity(orderItems, items[n]._id, qty)
    /\ UNCHANGED << cards, authVars, page, isLoading, listVars, customerForm, itemForm,
                    orderForm, netVars >>

\* the body createOrder posts
orderBody(form, lines, now) ==
    [ customerId |-> form.customerId,
      orderId    |-> generateCode(ORD, form.orderId, now),
      status     |-> form.status,
      items      |-> lines ]

\* orderReady without the test for an empty line set
orderReadyCustomerOnly(form, lines) == form.customerId # ""

\* whether createOrder gets past its first line
orderReady(form, lines) == form.customerId # "" /\ Len(lines) # 0

\* createOrder, up to its await
createOrder(now) ==
    /\ token # "" /\ page = "orders"
    /\ IF ~orderReady(orderForm, orderItems)
       THEN UNCHANGED << requests, limits >>
       ELSE /\ CanIssue
            /\ requests' = Append(requests,
                   request("createOrder", token,
                           orderBody(orderForm, orderItems, now), orders))
            /\ limits' = spend(1)
    /\ UNCHANGED << cards, authVars, page, isLoading, listVars, formVars, server, completed >>

\* createOrder, from the response on
createOrderResume(k) ==
    /\ Answered(k)
    /\ requests[k].kind = "createOrder"
    /\ orders' = << requests[k].data >> \o requests[k].captured
    /\ orderForm' = emptyOrderForm
    /\ orderItems' = << >>
    /\ requests' = finish(k)
    /\ completed' = completed \cup {merge("orders", requests[k].data._id, "")}
    /\ UNCHANGED << cards, authVars, page, isLoading, customers, items, customerForm,
                    itemForm, server, limits >>

\* the list updateOrderStatus passes to setOrders
withStatus(list, orderId, newStatus) ==
    [j \in 1..Len(list) |->
        IF list[j]._id = orderId THEN [list[j] EXCEPT !.status = newStatus]
        ELSE list[j]]

\* updateOrderStatus, up to its await: the status select of order card number n
updateOrderStatus(n, newStatus) ==
    /\ token # "" /\ page = "orders"
    /\ n \in 1..Len(orders)
    /\ newStatus # orders[n].status
    /\ CanIssue
    /\ requests' = Append(requests,
           request("updateOrderStatus", token,
                   [orderId |-> orders[n]._id, status |-> newStatus], orders))
    /\ limits' = spend(1)
    /\ UNCHANGED << cards, authVars, page, isLoading, listVars, formVars, server, completed >>

\* updateOrderStatus, from the response on
updateOrderStatusResume(k) ==
    /\ Answered(k)
    /\ requests[k].kind = "updateOrderStatus"
    /\ orders' = withStatus(requests[k].captured, requests[k].body.orderId,
                            requests[k].body.status)
    /\ requests' = finish(k)
    /\ completed' = completed \cup
           {merge("status", requests[k].body.orderId, requests[k].body.status)}
    /\ UNCHANGED << cards, authVars, page, isLoading, customers, items, formVars,
                    server, limits >>

\* the order cards of the orders tab, as the render computes them
renderOrders ==
    /\ token # "" /\ page = "orders"
    /\ cards' = [j \in 1..Len(orders) |-> orderCard(orders[j])]
    /\ UNCHANGED << authVars, page, isLoading, listVars, formVars, netVars >>

-----------------------------------------------------------------------------
(* The API routes: each answers a request once, creating or changing the   *)
(* stored records.                                                         *)

newId(prefix, list) == prefix \o ToString(Len(list) + 1)

stored(prefix, list, body) == [_id |-> newId(prefix, list)] @@ body

answer(k, ok, data) ==
    [requests EXCEPT ![k].phase = "answered", ![k].ok = ok, ![k].data = data]

apiLogin(k) ==
    /\ Sent(k) /\ requests[k].kind = "login"
    /\ \/ \E t \in Tokens : requests' = answer(k, TRUE, [token |-> t])
       \/ \E e \in LoginErrors : requests' = answer(k, FALSE, [error |-> e])
    /\ UNCHANGED << cards, authVars, page, isLoading, listVars, formVars, server,
                    limits, completed >>

apiList(k) ==
    /\ Sent(k) /\ requests[k].kind = "fetch"
    /\ requests' = answer(k, TRUE, server[requests[k].body.page])
    /\ UNCHANGED << cards, authVars, page, isLoading, listVars, formVars, server,
                    limits, completed >>

collectionOf(kind) ==
    CASE kind = "createCustomer" -> "customers"
      [] kind = "createItem" -> "items"
      [] OTHER -> "orders"

idPrefix(coll) ==
    CASE coll = "customers" -> "c"
      [] coll = "items" -> "i"
      [] OTHER -> "o"

apiCreate(k) ==
    /\ Sent(k)
    /\ requests[k].kind \in {"createCustomer", "createItem", "createOrder"}
    /\ LET coll == collectionOf(requests[k].kind)
           rec  == stored(idPrefix(coll), server[coll], requests[k].body)
       IN  /\ server' = [server EXCEPT ![coll] = Append(@, rec)]
           /\ requests' = answer(k, TRUE, rec)
    /\ UNCHANGED << cards, authVars, page, isLoading, listVars, formVars, limits, completed >>

apiPatchOrder(k) ==
    /\ Sent(k) /\ requests[k].kind = "updateOrderStatus"
    /\ server' = [server EXCEPT !.orders =
                     withStatus(@, requests[k].body.orderId, requests[k].body.status)]
    /\ requests' = answer(k, TRUE, noData)
    /\ UNCHANGED << cards, authVars, page, isLoading, listVars, formVars, limits, completed >>

-----------------------------------------------------------------------------
(* The page as constructed, in front of routes that already hold records *)

seedCustomers ==
    << [_id |-> "c1", name |-> "Bob", email |-> "bob@x", phone |-> "", address |-> ""] >>

seedItems ==
    << [_id |-> "i1", name |-> "Pen", price |-> 550, cost |-> 0, photo |-> "",
        itemId |-> <<"P">>],
       [_id |-> "i2", name |-> "Ink", price |-> 1000, cost |-> 0, photo |-> "",
        itemId |-> <<"K">>] >>

seedOrders ==
    << [_id |-> "o1", customerId |-> "c1", orderId |-> <<"X">>, status |-> "Pending",
        items |-> << [itemMongoId |-> "i1", quantity |-> 2, price |-> 550] >>] >>

seedServer == [customers |-> seedCustomers, items |-> seedItems, orders |-> seedOrders]

Init ==
    /\ username = "" /\ password = "" /\ token = "" /\ authError = ""
    /\ page = "customers"
    /\ customers = << >> /\ items = << >> /\ orders = << >>
    /\ customerForm = emptyCustomerForm
    /\ itemForm = emptyItemForm
    /\ orderForm = emptyOrderForm
    /\ orderItems = << >>
    /\ requests = effectRequests("", "", token, page)     \* the effect of the first render
    /\ isLoading = (requests # << >>)
    /\ server = seedServer
    /\ limits = [requests |-> MaxRequests - Len(requests), inflight |-> LoginInFlight]
    /\ cards = << >>
    /\ completed = {}

CustomerIds == {""} \cup {customers[j]._id : j \in 1..Len(customers)}

\* the routes answering
Api ==
    \/ \E k \in DOMAIN requests : apiLogin(k)
    \/ \E k \in DOMAIN requests : apiList(k)
    \/ \E k \in DOMAIN requests : apiCreate(k)
    \/ \E k \in DOMAIN requests : apiPatchOrder(k)

Next ==
    \/ \E u \in Usernames : setUsername(u)
    \/ \E p \in Passwords : setPassword(p)
    \/ handleLogin
    \/ \E k \in DOMAIN requests : handleLoginResume(k)
    \/ \E p \in Pages : setPage(p)
    \/ \E k \in DOMAIN requests : fetchDataResume(k)
    \/ \E v \in Names : setCustomerForm("name", v)
    \/ \E v \in Emails : setCustomerForm("email", v)
    \/ createCustomer
    \/ \E k \in DOMAIN requests : createCustomerResume(k)
    \/ createItem(FirstNow)
    \/ \E k \in DOMAIN requests : createItemResume(k)
    \/ \E v \in CustomerIds : setOrderForm("customerId", v)
    \/ \E n \in 1..Len(items) : toggleItemInOrder(n)
    \/ createOrder(FirstNow)
    \/ \E k \in DOMAIN requests : createOrderResume(k)
    \/ \E n \in 1..Len(orders) : updateOrderStatus(n, "Completed")
    \/ \E k \in DOMAIN requests : updateOrderStatusResume(k)
    \/ Api

Spec == Init /\ [][Next]_vars

-----------------------------------------------------------------------------
(* The dashboard after a login and a visit to each tab: every list loaded, *)
(* nothing awaited.                                                        *)

LoadedFrom(srv, pg, budget, window) ==
    /\ username = "" /\ password = "" /\ token = "jwt1" /\ authError = ""
    /\ page = pg /\ isLoading = FALSE
    /\ customers = srv.customers /\ items = srv.items /\ orders = srv.orders
    /\ customerForm = emptyCustomerForm
    /\ itemForm = emptyItemForm
    /\ orderForm = emptyOrderForm
    /\ orderItems = << >>
    /\ requests = << >>
    /\ server = srv
    /\ completed = {}
    /\ cards = << >>
    /\ limits = [requests |-> budget, inflight |-> window]

Loaded(pg, budget, window) == LoadedFrom(seedServer, pg, budget, window)

(* Editing the line set of the order form, nothing submitted *)

InitLines == Loaded("orders", 0, 0)

NextLines ==
    \/ \E n \in 1..Len(items) : toggleItemInOrder(n)
    \/ \E n \in 1..Len(items), q \in RawQuantities : updateItemQty(n, q)
    \/ \E v \in CustomerIds : setOrderForm("customerId", v)

SpecLines == InitLines /\ [][NextLines]_vars

(* Composing an order on the orders tab *)

InitComposer == Loaded("orders", ComposerRequests, MaxInFlight)

NextComposer ==
    \/ \E n \in 1..Len(items) : toggleItemInOrder(n)
    \/ \E n \in 1..Len(items), q \in ComposerQuantities : updateItemQty(n, q)
    \/ \E v \in CustomerIds : setOrderForm("customerId", v)
    \/ createOrder(FirstNow)
    \/ \E k \in DOMAIN requests : createOrderResume(k)
    \/ \E k \in DOMAIN requests : apiCreate(k)

SpecComposer == InitComposer /\ [][NextComposer]_vars

(* Submitting items and orders, with and without a code typed in *)

InitSubmit == \E pg \in {"items", "orders"} : Loaded(pg, SubmitRequests, MaxInFlight)

NextSubmit ==
    \/ \E v \in CodeInputs : setItemForm("itemId", v)
    \/ \E t \in Timestamps : createItem(t)
    \/ \E k \in DOMAIN requests : createItemResume(k)
    \/ \E v \in CustomerIds : setOrderForm("customerId", v)
    \/ \E v \in CodeInputs : setOrderForm("orderId", v)
    \/ setOrderForm("status", "Completed")
    \/ toggleItemInOrder(1)
    \/ \E t \in Timestamps : createOrder(t)
    \/ \E k \in DOMAIN requests : createOrderResume(k)
    \/ \E k \in DOMAIN requests : apiCreate(k)

SpecSubmit == InitSubmit /\ [][NextSubmit]_vars

(* A loaded dashboard whose creates and status updates overlap *)

InitNet == \E pg \in Pages : Loaded(pg, NetRequests, MaxInFlight)

NextNet ==
    \/ \E v \in Names : setCustomerForm("name", v)
    \/ \E v \in Emails : setCustomerForm("email", v)
    \/ createCustomer
    \/ \E k \in DOMAIN requests : createCustomerResume(k)
    \/ createItem(FirstNow)
    \/ \E k \in DOMAIN requests : createItemResume(k)
    \/ \E v \in CustomerIds : setOrderForm("customerId", v)
    \/ toggleItemInOrder(1)
    \/ createOrder(FirstNow)
    \/ \E k \in DOMAIN requests : createOrderResume(k)
    \/ \E n \in 1..Len(orders), s \in Statuses : updateOrderStatus(n, s)
    \/ \E k \in DOMAIN requests : updateOrderStatusResume(k)
    \/ \E k \in DOMAIN requests : apiCreate(k)
    \/ \E k \in DOMAIN requests : apiPatchOrder(k)

SpecNet == InitNet /\ [][NextNet]_vars

(* The orders tab showing one stored order, whatever lines it holds *)

StoredQuantities == {0, 1, 2, -3}
StoredLines ==
    [itemMongoId : {"i1"}, quantity : StoredQuantities, price : Prices]
    \cup [itemMongoId : {"i1"}, price : Prices]
    \cup [itemMongoId : {"i1"}, quantity : StoredQuantities]
    \cup [itemMongoId : {"i1"}]

StoredLineLists == UNION { [1..n -> StoredLines] : n \in 0..MaxLines }

storedOrder == [_id |-> "o1", customerId |-> "c1", orderId |-> <<"X">>, status |-> "Pending"]

StoredOrders ==
    { storedOrder } \cup { storedOrder @@ [items |-> l] : l \in StoredLineLists }

InitTotals ==
    \E o \in StoredOrders :
        LoadedFrom([seedServer EXCEPT !.orders = << o >>], "orders", 0, MaxInFlight)

NextTotals == renderOrders

SpecTotals == InitTotals /\ [][NextTotals]_vars

-----------------------------------------------------------------------------
(* Properties of the order composer, checked under SpecLines and SpecComposer *)

ItemNumbers == 1..Len(items)

\* C1: no two lines of orderItems reference the same item, whatever toggles,
\* quantity updates and order submissions came before.
C1_UniqueLines ==
    \A a, b \in 1..Len(orderItems) :
        orderItems[a].itemMongoId = orderItems[b].itemMongoId => a = b

\* two lines composed again after an order was submitted and merged
C1_Witness ==
    /\ Len(orderItems) = 2
    /\ \E m \in completed : m.kind = "orders"

\* C2: every line of the line set has a quantity of at least 1.
C2_QuantitiesPositive ==
    \A k \in 1..Len(orderItems) : orderItems[k].quantity >= 1

\* C3 as stated: for every line set and every catalog item, in the line set or
\* not, two toggles of the item in a row give back the original line set.
C3_ToggleTwiceRestores ==
    \A n \in ItemNumbers :
        toggleLine(toggleLine(orderItems, items[n]), items[n]) = orderItems

\* the item's line is the last one and is as a toggle would add it now
FreshLastLine(lines, item) ==
    /\ lines # << >>
    /\ lines[Len(lines)] = [itemMongoId |-> item._id, quantity |-> 1, price |-> item.price]

\* C3 amended: two toggles in a row give back the original line set when the
\* item has no line, or has the last line with quantity 1 and the item's price;
\* for any other item with a line they move it to the end with quantity 1.
C3_ToggleTwiceRestoresFresh ==
    \A n \in ItemNumbers :
        LET twice == toggleLine(toggleLine(orderItems, items[n]), items[n])
        IN  IF ~HasLine(orderItems, items[n]._id) \/ FreshLastLine(orderItems, items[n])
            THEN twice = orderItems
            ELSE /\ twice # orderItems
                 /\ FreshLastLine(twice, items[n])
                 /\ Len(twice) = Len(orderItems)

\* one item has a line with a changed quantity, the other has none
C3_Witness ==
    /\ Len(orderItems) = 1
    /\ orderItems[1].quantity = 2
    /\ Len(items) = 2

\* C4: a toggle of an item without a line appends one line for it, quantity 1
\* and the item's price, after the old lines; a toggle of an item with a line
\* removes that line and nothing else.
C4_ToggleAddsOrRemovesOne ==
    [][ \A n \in ItemNumbers :
          toggleItemInOrder(n) =>
            IF \A k \in 1..Len(orderItems) : orderItems[k].itemMongoId # items[n]._id
            THEN /\ Len(orderItems') = Len(orderItems) + 1
                 /\ SubSeq(orderItems', 1, Len(orderItems)) = orderItems
                 /\ orderItems'[Len(orderItems')].itemMongoId = items[n]._id
                 /\ orderItems'[Len(orderItems')].quantity = 1
                 /\ orderItems'[Len(orderItems')].price = items[n].price
            ELSE \E k \in 1..Len(orderItems) :
                    /\ orderItems[k].itemMongoId = items[n]._id
                    /\ orderItems' = SubSeq(orderItems, 1, k - 1)
                                     \o SubSeq(orderItems, k + 1, Len(orderItems))
      ]_vars

\* the second catalog item's line ahead of the first's
C4_Witness ==
    /\ Len(orderItems) = 2
    /\ orderItems[1].itemMongoId = "i2"
    /\ orderItems[2].itemMongoId = "i1"

\* C5: a quantity update keeps the number and order of the lines, every item
\* reference and price, and every line of another item; for an item without
\* a line it changes nothing.
C5_QuantityFrame ==
    [][ /\ \A n \in ItemNumbers, q \in RawQuantities :
             updateItemQty(n, q) =>
               /\ Len(orderItems') = Len(orderItems)
               /\ \A k \in 1..Len(orderItems) :
                    /\ orderItems'[k].itemMongoId = orderItems[k].itemMongoId
                    /\ orderItems'[k].price = orderItems[k].price
                    /\ orderItems[k].itemMongoId # items[n]._id
                         => orderItems'[k] = orderItems[k]
        /\ \A n \in ItemNumbers, q \in RawQuantities :
             (\A k \in 1..Len(orderItems) : orderItems[k].itemMongoId # items[n]._id)
               => setQuantity(orderItems, items[n]._id, q) = orderItems
      ]_vars

\* two lines whose quantities differ
C5_Witness ==
    /\ Len(orderItems) = 2
    /\ orderItems[1].quantity = 2
    /\ orderItems[2].quantity = 1

-----------------------------------------------------------------------------
(* Properties of the order cards, checked under SpecTotals *)

\* the quantity a line counts for: its own, or 1 when missing or zero
CountedQuantity(l) ==
    IF "quantity" \in DOMAIN l THEN (IF l.quantity = 0 THEN 1 ELSE l.quantity) ELSE 1

\* the price a line counts for, in cents: its own, or 0 when missing
CountedPrice(l) == IF "price" \in DOMAIN l THEN l.price ELSE 0

RECURSIVE SumOfQuantities(_, _)
\* the quantities of the first k lines, summed
SumOfQuantities(lines, k) ==
    IF k = 0 THEN 0 ELSE SumOfQuantities(lines, k - 1) + CountedQuantity(lines[k])

RECURSIVE SumOfAmounts(_, _)
\* quantity * price of the first k lines, summed
SumOfAmounts(lines, k) ==
    IF k = 0 THEN 0
    ELSE SumOfAmounts(lines, k - 1) + CountedQuantity(lines[k]) * CountedPrice(lines[k])

\* the amount in cents a text of the form [-]d..d.dd denotes
AmountOf(text) ==
    LET neg  == text # << >> /\ Head(text) = "-"
        body == IF neg THEN Tail(text) ELSE text
        n    == Len(body)
        abs  == DigitRun(SubSeq(body, 1, n - 3), 0) * 100
                + DigitVal(body[n - 1]) * 10 + DigitVal(body[n])
    IN  IF neg THEN 0 - abs ELSE abs

\* a text of the form [-]d..d.dd
TwoDecimals(text) ==
    LET body == IF text # << >> /\ Head(text) = "-" THEN Tail(text) ELSE text
        n    == Len(body)
    IN  /\ n >= 4
        /\ body[n - 2] = "."
        /\ \A j \in (1..n) \ {n - 2} : IsDigit(body[j])

\* C6: each order card shows as totalQuantity the sum of the line quantities,
\* a missing or zero quantity counted as 1, and as totalPrice the sum of
\* quantity * price with a missing price counted as 0, written with two
\* decimals; an order without lines shows 0 and "0.00".
C6_TotalsAreSums ==
    \A j \in 1..Len(cards) :
        "items" \in DOMAIN orders[j] =>
            /\ cards[j].totalQuantity
                 = SumOfQuantities(orders[j].items, Len(orders[j].items))
            /\ TwoDecimals(cards[j].totalPrice)
            /\ AmountOf(cards[j].totalPrice)
                 = SumOfAmounts(orders[j].items, Len(orders[j].items))
            /\ orders[j].items = << >> =>
                 /\ cards[j].totalQuantity = 0
                 /\ cards[j].totalPrice = <<"0", ".", "0", "0">>

\* the card of an order of 2 at 10.00 and 1 at 5.50 shows 3 and "25.50"
C6_Witness ==
    /\ Len(cards) = 1
    /\ "items" \in DOMAIN orders[1]
    /\ orders[1].items = << [itemMongoId |-> "i1", quantity |-> 2, price |-> 1000],
                            [itemMongoId |-> "i1", quantity |-> 1, price |-> 550] >>
    /\ cards[1] = [totalQuantity |-> 3, totalPrice |-> <<"2", "5", ".", "5", "0">>]

-----------------------------------------------------------------------------
(* Merging of responses, checked under SpecNet *)

InList(list, id) == \E j \in 1..Len(list) : list[j]._id = id

\* C7: once nothing is awaited, every record a completed create returned is in
\* its list, and an order whose status one completed update changed shows it.
C7_NoMergeLost ==
    requests = << >> =>
        \A m \in completed :
            /\ m.kind = "customers" => InList(customers, m._id)
            /\ m.kind = "items" => InList(items, m._id)
            /\ m.kind = "orders" => InList(orders, m._id)
            /\ ( /\ m.kind = "status"
                 /\ \A o \in completed : (o.kind = "status" /\ o._id = m._id) => o = m )
               => \A j \in 1..Len(orders) :
                     orders[j]._id = m._id => orders[j].status = m.status

-----------------------------------------------------------------------------
(* The login gate, checked under Spec *)

\* C8: the token is set only by a login that was answered ok; a refused or
\* failed login leaves the token as it was and sets authError; every list
\* fetch, create and status update awaited carries a token a login returned.
C8_GateHolds ==
    /\ token # "" => merge("login", token, "") \in completed
    /\ token = "" => completed = {}
    /\ \A k \in DOMAIN requests :
          requests[k].kind # "login" =>
            /\ requests[k].auth # ""
            /\ merge("login", requests[k].auth, "") \in completed

C8_RefusedLoginKeepsGate ==
    \A k \in DOMAIN requests :
        (handleLoginResume(k) /\ ~(Answered(k) /\ requests[k].ok))
          => token' = token /\ authError' # ""

C8_LoginGate == []C8_GateHolds /\ [][C8_RefusedLoginKeepsGate]_vars

\* an order is being submitted behind the gate
C8_Witness ==
    /\ token # ""
    /\ \E k \in DOMAIN requests : requests[k].kind = "createOrder"

-----------------------------------------------------------------------------
(* Submissions, checked under SpecSubmit *)

IsBlank(text) == \A j \in 1..Len(text) : text[j] = " "

\* the text is the prefix followed by the numeral of now
IsGenerated(text, prefix, now) ==
    /\ Len(text) > Len(prefix)
    /\ SubSeq(text, 1, Len(prefix)) = prefix
    /\ \A j \in (Len(prefix) + 1)..Len(text) : IsDigit(text[j])
    /\ DigitRun(SubSeq(text, Len(prefix) + 1, Len(text)), 0) = now

Newest(seq) == seq[Len(seq)]

\* C9: the code a submission sends is never blank: a blank order or item code
\* is replaced by "ORD_" or "ITEM_" followed by the timestamp, any other code
\* is sent as typed.
C9_CodeNeverBlank ==
    [][ \A t \in Timestamps :
          /\ (createOrder(t) /\ requests' # requests) =>
               LET code == Newest(requests').body.orderId
               IN  /\ ~IsBlank(code)
                   /\ IF IsBlank(orderForm.orderId)
                      THEN IsGenerated(code, <<"O", "R", "D", "_">>, t)
                      ELSE code = orderForm.orderId
          /\ createItem(t) =>
               LET code == Newest(requests').body.itemId
               IN  /\ ~IsBlank(code)
                   /\ IF IsBlank(itemForm.itemId)
                      THEN IsGenerated(code, <<"I", "T", "E", "M", "_">>, t)
                      ELSE code = itemForm.itemId
      ]_vars

\* an order sent with a generated code while the form holds a space
C9_Witness ==
    /\ orderForm.orderId = <<" ">>
    /\ \E k \in DOMAIN requests :
          /\ requests[k].kind = "createOrder"
          /\ requests[k].body.orderId = <<"O", "R", "D", "_", "4", "1">>

\* C10: createOrder issues a request only with a customer selected and a line
\* set that is not empty, and otherwise changes nothing; the request carries
\* the current line set; when its response is merged the order leads the
\* list, the form is reset and the line set is empty.
C10_SubmitGuardAndReset ==
    [][ /\ \A t \in Timestamps :
             createOrder(t) =>
               IF orderForm.customerId = "" \/ orderItems = << >>
               THEN UNCHANGED vars
               ELSE /\ Len(requests') = Len(requests) + 1
                    /\ Newest(requests').kind = "createOrder"
                    /\ Newest(requests').body.items = orderItems
                    /\ Newest(requests').body.customerId = orderForm.customerId
                    /\ Newest(requests').body.status = orderForm.status
                    /\ UNCHANGED << orders, orderForm, orderItems >>
        /\ \A k \in DOMAIN requests :
             createOrderResume(k) =>
               /\ orders' = << requests[k].data >> \o requests[k].captured
               /\ orderForm' = [customerId |-> "", orderId |-> << >>, status |-> "Pending"]
               /\ orderItems' = << >>
        /\ (Len(requests') > Len(requests) /\ Newest(requests').kind = "createOrder")
             => orderForm.customerId # "" /\ orderItems # << >>
      ]_vars

\* a submitted order merged: it leads the list, form and line set are reset
C10_Witness ==
    /\ \E m \in completed : m.kind = "orders" /\ orders[1]._id = m._id
    /\ Len(orders[1].items) = 1
    /\ orders[1].status = "Completed"
    /\ orderForm = emptyOrderForm
    /\ orderItems = << >>

=============================================================================
